---- MODULE Spec2Model ----
(***************************************************************************)
(* Model of the URL shortener in src/main.go: main's startup sequence      *)
(* (getFileBytes, makeMapHandler, makeYAMLHandler / makeJSONHandler,       *)
(* startServer) and the handler chain it composes (structured-rule router  *)
(* -> MapHandler -> default ServeMux with helloWorldHandler).              *)
(*                                                                         *)
(* Strings (request paths, rule paths, urls) are sequences of tokens. The  *)
(* token "/" is the slash, "." is a single dot, "https:" is a scheme       *)
(* prefix (used only as the first token of a url) and every other token    *)
(* is a run of ordinary characters holding no slash, dot-only name, "?",   *)
(* "#" or non-ASCII byte. The string a sequence stands for is the          *)
(* concatenation of its tokens.                                            *)
(***************************************************************************)
EXTENDS Integers, Sequences, FiniteSets, TLC

VARIABLES
    pc,           \* position of main: "main", "compose", "select", "start", "serving", "panicked"
    yamlFile,     \* what the file system holds at config.PathToYAML
    jsonFile,     \* what the file system holds at config.PathToJSON
    yamlBytes,    \* main's local yamlBytes (Nil or a payload)
    jsonBytes,    \* main's local jsonBytes (Nil or a payload)
    pathsToUrls,  \* the map closed over by MapHandler's closure
    mappers,      \* the []URLMapper closed over by the structured handler's closure
    handler,      \* main's local handler: "none", "map", "yaml", "json"
    listening,    \* http.ListenAndServe has been called
    reqs          \* the requests being served, one goroutine per slot

vars == <<pc, yamlFile, jsonFile, yamlBytes, jsonBytes, pathsToUrls, mappers,
          handler, listening, reqs>>

-----------------------------------------------------------------------------
(* Bounds *)

\* Total number of rules held by the YAML and the JSON payload together.
MaxRules == 2

\* Number of request slots (connections served concurrently).
MaxReqs == 2

\* Longest request path / rule path, in tokens, of the handler-level specifications.
MaxPathLen == 3

\* Longest url, in tokens after the optional scheme, of the handler-level specifications.
MaxURLLen == 3

-----------------------------------------------------------------------------
(* Strings *)

Slash == "/"

Dot == "."

Scheme == "https:"

HasSuffix(s, p) ==
    /\ Len(s) >= Len(p)
    /\ SubSeq(s, Len(s) - Len(p) + 1, Len(s)) = p

\* strings.LastIndex(s, "/") + 1: the position of the last slash, 0 when there is none.
LastSlash(s) ==
    LET idx == {k \in 1..Len(s) : s[k] = Slash}
    IN  IF idx = {} THEN 0 ELSE CHOOSE k \in idx : \A j \in idx : j <= k

\* path.Split(p): the directory part, up to and including the final slash.
SplitDir(p) == SubSeq(p, 1, LastSlash(p))

\* The elements of a path: the runs of tokens between slashes (empty runs included).
Elements(s) ==
    LET idx == {k \in 1..Len(s) : s[k] = Slash}
        n == Cardinality(idx)
        pos == [k \in 0..(n + 1) |->
                   IF k = 0 THEN 0
                   ELSE IF k = n + 1 THEN Len(s) + 1
                        ELSE CHOOSE j \in idx : Cardinality({x \in idx : x < j}) = k - 1]
    IN  [k \in 1..(n + 1) |-> SubSeq(s, pos[k - 1] + 1, pos[k] - 1)]

\* One step of path.Clean's scan: "" and "." are dropped, ".." removes the element
\* before it, is dropped at the root and is kept in front of a relative path.
CleanStep(out, e, rooted) ==
    IF e = <<>> \/ e = <<Dot>> THEN out
    ELSE IF e = <<Dot, Dot>>
         THEN IF out # <<>> /\ out[Len(out)] # <<Dot, Dot>> THEN SubSeq(out, 1, Len(out) - 1)
              ELSE IF rooted THEN out
                   ELSE Append(out, e)
         ELSE Append(out, e)

\* path.Clean's scan over the elements, from the left.
RECURSIVE CleanScan(_, _, _)
CleanScan(elems, k, rooted) ==
    IF k = 0 THEN <<>>
    ELSE CleanStep(CleanScan(elems, k - 1, rooted), elems[k], rooted)

RECURSIVE Join(_)
Join(elems) ==
    IF elems = <<>> THEN <<>>
    ELSE IF Len(elems) = 1 THEN Head(elems)
         ELSE Head(elems) \o <<Slash>> \o Join(Tail(elems))

\* The one member of a singleton set. Operators below take the value of an
\* argument through {f(v) : v \in {arg}}, which evaluates arg once.
The(S) == CHOOSE x \in S : TRUE

\* path.Clean(p)
Clean(p) ==
    The({IF q = <<>> THEN <<Dot>>
         ELSE LET rooted == q[1] = Slash
                  elems == Elements(q)
                  out == CleanScan(elems, Len(elems), rooted)
              IN  IF rooted THEN <<Slash>> \o Join(out)
                  ELSE IF out = <<>> THEN <<Dot>> ELSE Join(out) : q \in {p}})

\* net/http cleanPath(p), used by ServeMux: the canonical path, trailing slash kept.
cleanPath(p) ==
    The({IF r = <<>> THEN <<Slash>>
         ELSE LET q == IF r[1] # Slash THEN <<Slash>> \o r ELSE r
                  np == Clean(q)
              IN  IF q[Len(q)] = Slash /\ np # <<Slash>> THEN np \o <<Slash>> ELSE np : r \in {p}})

\* url.Parse(u).Scheme != "": the url starts with a scheme.
HasScheme(u) == u # <<>> /\ u[1] = Scheme

\* url.Parse(u).Host != "": the url starts with "//" followed by a non-empty
\* authority ("///..." is a path, not an authority).
HasHost(u) ==
    /\ ~HasScheme(u)
    /\ Len(u) >= 3
    /\ u[1] = Slash /\ u[2] = Slash /\ u[3] # Slash

\* http.Redirect without its test for a scheme or a host: every url is resolved
\* against the request path and cleaned.
RedirectLocationAlwaysResolved(url, reqPath) ==
    The({LET oldpath == IF rp = <<>> THEN <<Slash>> ELSE rp
             abs == IF u = <<>> \/ u[1] # Slash THEN SplitDir(oldpath) \o u ELSE u
             trailing == HasSuffix(abs, <<Slash>>)
             cleaned == Clean(abs)
         IN  IF trailing /\ ~HasSuffix(cleaned, <<Slash>>) THEN cleaned \o <<Slash>>
             ELSE cleaned : u \in {url}, rp \in {reqPath}})

\* The Location header http.Redirect(w, r, url, code) sets for a request whose
\* r.URL.Path is oldpath: a url with neither scheme nor host is made absolute
\* against the request path's directory and cleaned, its trailing slash kept.
RedirectLocation(url, reqPath) ==
    The({IF HasScheme(u) \/ HasHost(u) THEN u
         ELSE LET oldpath == IF rp = <<>> THEN <<Slash>> ELSE rp
                  abs == IF u = <<>> \/ u[1] # Slash THEN SplitDir(oldpath) \o u ELSE u
                  trailing == HasSuffix(abs, <<Slash>>)
                  cleaned == Clean(abs)
              IN  IF trailing /\ ~HasSuffix(cleaned, <<Slash>>) THEN cleaned \o <<Slash>>
                  ELSE cleaned : u \in {url}, rp \in {reqPath}})

-----------------------------------------------------------------------------
(* Data *)

StatusMovedPermanently == 301

StatusOK == 200

\* What fmt.Fprintln(w, "Hello, world!") writes.
Greeting == "Hello, world!\n"

\* A []byte that is nil.
Nil == [kind |-> "nil", items |-> <<>>]

\* File contents. "empty" is a file of zero bytes, "scalar" a document that is one
\* bare scalar (such as `not valid json`), "list" a YAML list / JSON array of
\* {path, url} objects.
EmptyPayload == [kind |-> "empty", items |-> <<>>]

ScalarPayload == [kind |-> "scalar", items |-> <<>>]

ListPayload(items) == [kind |-> "list", items |-> items]

\* The flag was not passed: the path is "" and ioutil.ReadFile fails.
NotPassed == [kind |-> "notpassed", items |-> <<>>]

\* The flag names a file that is missing or cannot be read.
Unreadable == [kind |-> "unreadable", items |-> <<>>]

\* The built-in mapping of makeMapHandler.
UrlshortGodocPath == <<Slash, "urlshort-godoc">>

YamlGodocPath == <<Slash, "yaml-godoc">>

UrlshortGodocURL ==
    <<Scheme, Slash, Slash, "godoc.org", Slash, "github.com", Slash, "gophercises",
      Slash, "urlshort">>

YamlGodocURL == <<Scheme, Slash, Slash, "godoc.org", Slash, "gopkg.in", Slash, "yaml.v2">>

BuiltinMap ==
    [p \in {UrlshortGodocPath, YamlGodocPath} |->
        IF p = UrlshortGodocPath THEN UrlshortGodocURL ELSE YamlGodocURL]

EmptyMap == [p \in {} |-> <<>>]

\* All sequences over S of length at most n.
RECURSIVE SeqsUpTo(_, _)
SeqsUpTo(S, n) ==
    IF n = 0 THEN {<<>>}
    ELSE LET shorter == SeqsUpTo(S, n - 1)
         IN  shorter \cup {Append(s, x) : s \in {t \in shorter : Len(t) = n - 1}, x \in S}

\* The rules and request paths of the whole-program specification: a rule that
\* overrides a key of the built-in map, and two rules for /a, one with a relative
\* and one with an absolute url.
OverrideURL == <<Scheme, Slash, Slash, "override.example.com">>

Items ==
    {[path |-> UrlshortGodocPath, url |-> OverrideURL],
     [path |-> <<Slash, "a">>, url |-> <<"b">>],
     [path |-> <<Slash, "a">>, url |-> OverrideURL]}

ReqPaths == {UrlshortGodocPath, YamlGodocPath, <<Slash, "a">>, <<Slash, Slash, "a">>}

Payloads == {EmptyPayload, ScalarPayload} \cup {ListPayload(s) : s \in SeqsUpTo(Items, MaxRules)}

Files == {NotPassed, Unreadable} \cup Payloads

ReqIds == 1..MaxReqs

\* The strings of the handler-level specifications: every path of at most
\* MaxPathLen tokens that starts with a slash, and every url of at most MaxURLLen
\* tokens, with and without a scheme in front.
PathTokens == {Slash, "a", "A"}

URLTokens == {Slash, Dot, "b"}

BoundedPaths == {<<Slash>> \o s : s \in SeqsUpTo(PathTokens, MaxPathLen - 1)}

BoundedURLs ==
    LET rel == SeqsUpTo(URLTokens, MaxURLLen)
    IN  rel \cup {<<Scheme>> \o s : s \in rel}

MapURLs == {OverrideURL, <<"b">>}

MapReqPaths == BoundedPaths \cup {UrlshortGodocPath, YamlGodocPath}

\* The mappings of the MapHandler-level specification: the built-in one, the empty
\* one and every mapping of one key.
BoundedMaps ==
    {BuiltinMap, EmptyMap} \cup {[q \in {k} |-> u] : k \in BoundedPaths, u \in MapURLs}

NoResp == [status |-> 0, location |-> <<>>, body |-> "", by |-> "none", target |-> <<>>]

IdleReq == [stage |-> "idle", path |-> <<>>, cur |-> <<>>, visited |-> <<>>, writes |-> 0,
            resp |-> NoResp]

-----------------------------------------------------------------------------
(* Startup *)

\* getFileBytes returning an empty slice, not nil, when the read fails.
getFileBytesEmptyOnError(file) ==
    IF file.kind \in {"notpassed", "unreadable"} THEN EmptyPayload ELSE file

\* getFileBytes: the file's bytes, nil when ioutil.ReadFile fails. A file of zero
\* bytes is read without an error and yields an empty, non-nil slice.
getFileBytes(file) ==
    IF file.kind \in {"notpassed", "unreadable"} THEN Nil ELSE file

URLMapper(item) == [Path |-> item.path, URL |-> item.url]

\* yaml.Unmarshal(YAML, &mappers): no document at all decodes to no rules without
\* an error; a scalar document cannot be unmarshalled into a slice.
yamlUnmarshal(YAML) ==
    IF YAML.kind = "list"
    THEN [err |-> FALSE, mappers |-> [k \in 1..Len(YAML.items) |-> URLMapper(YAML.items[k])]]
    ELSE IF YAML.kind \in {"empty", "nil"} THEN [err |-> FALSE, mappers |-> <<>>]
         ELSE [err |-> TRUE, mappers |-> <<>>]

\* json.Unmarshal(JSON, &mappers): zero bytes are "unexpected end of JSON input".
jsonUnmarshal(JSON) ==
    IF JSON.kind = "list"
    THEN [err |-> FALSE, mappers |-> [k \in 1..Len(JSON.items) |-> URLMapper(JSON.items[k])]]
    ELSE [err |-> TRUE, mappers |-> <<>>]

\* YAMLHandler: (nil, err) on a decode error, else the closure over mappers.
YAMLHandler(YAML) ==
    LET d == yamlUnmarshal(YAML)
    IN  IF d.err THEN [handler |-> "none", err |-> TRUE, mappers |-> <<>>]
        ELSE [handler |-> "yaml", err |-> FALSE, mappers |-> d.mappers]

\* JSONHandler: (nil, err) on a decode error, else the closure over mappers.
JSONHandler(JSON) ==
    LET d == jsonUnmarshal(JSON)
    IN  IF d.err THEN [handler |-> "none", err |-> TRUE, mappers |-> <<>>]
        ELSE [handler |-> "json", err |-> FALSE, mappers |-> d.mappers]

\* makeYAMLHandler: panics on an error of YAMLHandler.
makeYAMLHandler(b) ==
    LET h == YAMLHandler(b)
    IN  [panic |-> h.err, handler |-> h.handler, mappers |-> h.mappers]

\* makeJSONHandler dropping JSONHandler's error.
makeJSONHandlerIgnoringErr(b) ==
    LET h == JSONHandler(b)
    IN  [panic |-> FALSE, handler |-> "json", mappers |-> h.mappers]

\* makeJSONHandler: panics on an error of JSONHandler.
makeJSONHandler(b) ==
    LET h == JSONHandler(b)
    IN  [panic |-> h.err, handler |-> h.handler, mappers |-> h.mappers]

\* main testing jsonBytes before yamlBytes.
selectHandlerJSONFirst(yb, jb) ==
    IF jb # Nil THEN "json"
    ELSE IF yb # Nil THEN "yaml"
         ELSE "map"

\* main, lines 92-97: which constructor main calls for the bytes it read.
selectHandler(yb, jb) ==
    IF yb # Nil THEN "yaml"
    ELSE IF jb # Nil THEN "json"
         ELSE "map"

Init ==
    /\ pc = "main"
    /\ yamlFile \in Files
    /\ jsonFile \in Files
    /\ Len(yamlFile.items) + Len(jsonFile.items) <= MaxRules
    /\ yamlBytes = Nil
    /\ jsonBytes = Nil
    /\ pathsToUrls = EmptyMap
    /\ mappers = <<>>
    /\ handler = "none"
    /\ listening = FALSE
    /\ reqs = [i \in ReqIds |-> IdleReq]

\* main, lines 86-87
GetFileBytes ==
    /\ pc = "main"
    /\ yamlBytes' = getFileBytes(yamlFile)
    /\ jsonBytes' = getFileBytes(jsonFile)
    /\ pc' = "compose"
    /\ UNCHANGED <<yamlFile, jsonFile, pathsToUrls, mappers, handler, listening, reqs>>

\* main, lines 89-92: mux := makeDefaultMux(); mapHandler := makeMapHandler(mux);
\* handler := mapHandler
MakeMapHandler ==
    /\ pc = "compose"
    /\ pathsToUrls' = BuiltinMap
    /\ handler' = "map"
    /\ pc' = "select"
    /\ UNCHANGED <<yamlFile, jsonFile, yamlBytes, jsonBytes, mappers, listening, reqs>>

\* The effect of make{YAML,JSON}Handler's result on main: a panic ends the
\* process before handler is assigned.
Installed(h) ==
    IF h.panic
    THEN /\ pc' = "panicked"
         /\ UNCHANGED <<handler, mappers>>
    ELSE /\ pc' = "start"
         /\ handler' = h.handler
         /\ mappers' = h.mappers

\* main, lines 93-94
MakeYAMLHandler ==
    /\ pc = "select"
    /\ selectHandler(yamlBytes, jsonBytes) = "yaml"
    /\ Installed(makeYAMLHandler(yamlBytes))
    /\ UNCHANGED <<yamlFile, jsonFile, yamlBytes, jsonBytes, pathsToUrls, listening, reqs>>

\* main, lines 95-96
MakeJSONHandler ==
    /\ pc = "select"
    /\ selectHandler(yamlBytes, jsonBytes) = "json"
    /\ Installed(makeJSONHandler(jsonBytes))
    /\ UNCHANGED <<yamlFile, jsonFile, yamlBytes, jsonBytes, pathsToUrls, listening, reqs>>

\* main, lines 92 and 98: neither branch taken, handler stays mapHandler.
KeepMapHandler ==
    /\ pc = "select"
    /\ selectHandler(yamlBytes, jsonBytes) = "map"
    /\ pc' = "start"
    /\ UNCHANGED <<yamlFile, jsonFile, yamlBytes, jsonBytes, pathsToUrls, mappers, handler,
                   listening, reqs>>

\* startServer
StartServer ==
    /\ pc = "start"
    /\ listening' = TRUE
    /\ pc' = "serving"
    /\ UNCHANGED <<yamlFile, jsonFile, yamlBytes, jsonBytes, pathsToUrls, mappers, handler, reqs>>

-----------------------------------------------------------------------------
(* Serving: one request per slot, each layer of the chain one step *)

\* What http.Redirect writes for a GET besides the header.
RedirectBody == "Moved Permanently"

\* A write to the http.ResponseWriter: the first WriteHeader decides the status
\* and the headers, later ones are superfluous.
Write(r, resp) ==
    [r EXCEPT !.writes = @ + 1, !.resp = IF r.writes = 0 THEN resp ELSE @]

\* http.Redirect(w, r, url, 301) called by `layer`.
Redirect(r, layer, url) ==
    Write(r, [status |-> StatusMovedPermanently,
              location |-> RedirectLocation(url, r.cur),
              body |-> RedirectBody,
              by |-> layer,
              target |-> url])

\* The handler `layer` has run; `next` is the handler it called ("done": none).
Ran(r, layer, next) == [r EXCEPT !.visited = Append(@, layer), !.stage = next]

\* The loop without its return: the last rule whose Path equals path wins.
RECURSIVE rangeMappersLast(_, _, _)
rangeMappersLast(ms, k, path) ==
    IF k > Len(ms) THEN 0
    ELSE LET later == rangeMappersLast(ms, k + 1, path)
         IN  IF later # 0 THEN later
             ELSE IF ms[k].Path = path THEN k ELSE 0

\* for _, mapper := range mappers { if mapper.Path == path ... }: the index of the
\* first rule whose Path equals path, 0 when the loop ends without a match.
RECURSIVE rangeMappers(_, _, _)
rangeMappers(ms, k, path) ==
    IF k > Len(ms) THEN 0
    ELSE IF ms[k].Path = path THEN k
         ELSE rangeMappers(ms, k + 1, path)

\* The closure calling the fallback first for a path the built-in map knows.
yamlServeHTTPFallbackFirst(ms, r) ==
    LET k == rangeMappers(ms, 1, r.cur)
    IN  IF k # 0 /\ r.cur \notin DOMAIN BuiltinMap
        THEN Ran(Redirect(r, "yaml", ms[k].URL), "yaml", "done")
        ELSE Ran(r, "yaml", "map")

\* The closure YAMLHandler returns, lines 41-49.
yamlServeHTTP(ms, r) ==
    LET k == rangeMappers(ms, 1, r.cur)
    IN  IF k # 0 THEN Ran(Redirect(r, "yaml", ms[k].URL), "yaml", "done")
        ELSE Ran(r, "yaml", "map")

\* The closure JSONHandler returns, lines 58-66.
jsonServeHTTP(ms, r) ==
    LET k == rangeMappers(ms, 1, r.cur)
    IN  IF k # 0 THEN Ran(Redirect(r, "json", ms[k].URL), "json", "done")
        ELSE Ran(r, "json", "map")

\* MapHandler looking up the cleaned path.
MapHandlerCleaned(m, r) ==
    IF cleanPath(r.cur) \in DOMAIN m
    THEN Ran(Redirect(r, "map", m[cleanPath(r.cur)]), "map", "done")
    ELSE Ran(r, "map", "mux")

\* MapHandler without its else: the fallback is called after a redirect too.
MapHandlerNoElse(m, r) ==
    IF r.cur \in DOMAIN m THEN Ran(Redirect(r, "map", m[r.cur]), "map", "mux")
    ELSE Ran(r, "map", "mux")

\* The closure MapHandler returns, lines 73-80.
MapHandler(m, r) ==
    IF r.cur \in DOMAIN m THEN Ran(Redirect(r, "map", m[r.cur]), "map", "done")
    ELSE Ran(r, "map", "mux")

\* http.NotFound in place of the greeting.
helloWorldHandlerNotFound(r) ==
    Write(r, [status |-> 404, location |-> <<>>, body |-> "404 page not found\n",
              by |-> "helloWorldHandler", target |-> <<>>])

\* helloWorldHandler: the first Write sends status 200.
helloWorldHandler(r) ==
    Write(r, [status |-> StatusOK, location |-> <<>>, body |-> Greeting,
              by |-> "helloWorldHandler", target |-> <<>>])

\* The ServeMux of makeDefaultMux, whose only pattern is "/": a request whose path
\* is not in canonical form is redirected to the canonical path, every other
\* request goes to helloWorldHandler.
muxServeHTTP(r) ==
    IF cleanPath(r.cur) # r.cur
    THEN Ran(Redirect(r, "mux", cleanPath(r.cur)), "mux", "done")
    ELSE Ran(helloWorldHandler(r), "mux", "done")

\* The server accepts a request for path p and calls the top-level handler.
Arrive(i, p) ==
    /\ listening
    /\ reqs[i].stage = "idle"
    /\ reqs' = [reqs EXCEPT ![i] = [IdleReq EXCEPT !.stage = handler, !.path = p, !.cur = p]]
    /\ UNCHANGED <<pc, yamlFile, jsonFile, yamlBytes, jsonBytes, pathsToUrls, mappers,
                   handler, listening>>

\* The closure re-slicing the shared mappers as it scans.
YAMLServeConsuming(i) ==
    /\ reqs[i].stage = "yaml"
    /\ reqs' = [reqs EXCEPT ![i] = yamlServeHTTP(mappers, reqs[i])]
    /\ mappers' = SubSeq(mappers, rangeMappers(mappers, 1, reqs[i].cur) + 1, Len(mappers))
    /\ UNCHANGED <<pc, yamlFile, jsonFile, yamlBytes, jsonBytes, pathsToUrls, handler, listening>>

YAMLServe(i) ==
    /\ reqs[i].stage = "yaml"
    /\ reqs' = [reqs EXCEPT ![i] = yamlServeHTTP(mappers, reqs[i])]
    /\ UNCHANGED <<pc, yamlFile, jsonFile, yamlBytes, jsonBytes, pathsToUrls, mappers,
                   handler, listening>>

JSONServe(i) ==
    /\ reqs[i].stage = "json"
    /\ reqs' = [reqs EXCEPT ![i] = jsonServeHTTP(mappers, reqs[i])]
    /\ UNCHANGED <<pc, yamlFile, jsonFile, yamlBytes, jsonBytes, pathsToUrls, mappers,
                   handler, listening>>

MapServe(i) ==
    /\ reqs[i].stage = "map"
    /\ reqs' = [reqs EXCEPT ![i] = MapHandler(pathsToUrls, reqs[i])]
    /\ UNCHANGED <<pc, yamlFile, jsonFile, yamlBytes, jsonBytes, pathsToUrls, mappers,
                   handler, listening>>

MuxServe(i) ==
    /\ reqs[i].stage = "mux"
    /\ reqs' = [reqs EXCEPT ![i] = muxServeHTTP(reqs[i])]
    /\ UNCHANGED <<pc, yamlFile, jsonFile, yamlBytes, jsonBytes, pathsToUrls, mappers,
                   handler, listening>>

\* The top-level handler has returned and the response is sent; the slot is free.
Finish(i) ==
    /\ reqs[i].stage = "done"
    /\ reqs' = [reqs EXCEPT ![i] = IdleReq]
    /\ UNCHANGED <<pc, yamlFile, jsonFile, yamlBytes, jsonBytes, pathsToUrls, mappers,
                   handler, listening>>

ArriveAny == \E i \in ReqIds, p \in ReqPaths : Arrive(i, p)

YAMLServeAny == \E i \in ReqIds : YAMLServe(i)

JSONServeAny == \E i \in ReqIds : JSONServe(i)

MapServeAny == \E i \in ReqIds : MapServe(i)

MuxServeAny == \E i \in ReqIds : MuxServe(i)

FinishAny == \E i \in ReqIds : Finish(i)

Next ==
    \/ GetFileBytes
    \/ MakeMapHandler
    \/ MakeYAMLHandler
    \/ MakeJSONHandler
    \/ KeepMapHandler
    \/ StartServer
    \/ ArriveAny
    \/ YAMLServeAny
    \/ JSONServeAny
    \/ MapServeAny
    \/ MuxServeAny
    \/ FinishAny

Spec == Init /\ [][Next]_vars

-----------------------------------------------------------------------------
(* Handler-level specifications *)

\* The program started with a YAML file of one rule, path and url drawn from the
\* bounded strings, and no JSON file; one connection.
InitRedirect ==
    /\ pc = "main"
    /\ \E p \in BoundedPaths, u \in BoundedURLs :
           yamlFile = ListPayload(<<[path |-> p, url |-> u]>>)
    /\ jsonFile = NotPassed
    /\ yamlBytes = Nil
    /\ jsonBytes = Nil
    /\ pathsToUrls = EmptyMap
    /\ mappers = <<>>
    /\ handler = "none"
    /\ listening = FALSE
    /\ reqs = [i \in ReqIds |-> IdleReq]

NextRedirect ==
    \/ GetFileBytes
    \/ MakeMapHandler
    \/ MakeYAMLHandler
    \/ StartServer
    \/ \E p \in BoundedPaths : Arrive(1, p)
    \/ YAMLServe(1)
    \/ MapServe(1)
    \/ MuxServe(1)
    \/ Finish(1)

SpecRedirect == InitRedirect /\ [][NextRedirect]_vars

\* MapHandler(m, mux) serving as the top-level handler, m drawn from the bounded
\* mappings; one connection.
InitMapHandler ==
    /\ pc = "serving"
    /\ yamlFile = NotPassed
    /\ jsonFile = NotPassed
    /\ yamlBytes = Nil
    /\ jsonBytes = Nil
    /\ pathsToUrls \in BoundedMaps
    /\ mappers = <<>>
    /\ handler = "map"
    /\ listening = TRUE
    /\ reqs = [i \in ReqIds |-> IdleReq]

NextMapHandler ==
    \/ \E p \in MapReqPaths : Arrive(1, p)
    \/ MapServe(1)
    \/ MuxServe(1)
    \/ Finish(1)

SpecMapHandler == InitMapHandler /\ [][NextMapHandler]_vars

\* The whole program started with files that hold at most one rule each.
SmallFiles == {NotPassed} \cup {ListPayload(s) : s \in SeqsUpTo(Items, 1)}

InitChain ==
    /\ pc = "main"
    /\ yamlFile \in SmallFiles
    /\ jsonFile \in SmallFiles
    /\ yamlBytes = Nil
    /\ jsonBytes = Nil
    /\ pathsToUrls = EmptyMap
    /\ mappers = <<>>
    /\ handler = "none"
    /\ listening = FALSE
    /\ reqs = [i \in ReqIds |-> IdleReq]

\* Two connections.
ChainReqs == {1, 2}

NextChain ==
    \/ GetFileBytes
    \/ MakeMapHandler
    \/ MakeYAMLHandler
    \/ MakeJSONHandler
    \/ KeepMapHandler
    \/ StartServer
    \/ \E i \in ChainReqs, p \in ReqPaths : Arrive(i, p)
    \/ \E i \in ChainReqs : YAMLServe(i)
    \/ \E i \in ChainReqs : JSONServe(i)
    \/ \E i \in ChainReqs : MapServe(i)
    \/ \E i \in ChainReqs : MuxServe(i)
    \/ \E i \in ChainReqs : Finish(i)

\* Each connection's goroutine keeps running: a handler that has been called runs.
Fairness ==
    \A i \in ChainReqs : WF_vars(YAMLServe(i) \/ JSONServe(i) \/ MapServe(i) \/ MuxServe(i))

FairSpecChain == InitChain /\ [][NextChain]_vars /\ Fairness

-----------------------------------------------------------------------------
(* Properties *)

Done(i) == reqs[i].stage = "done"

Structured == handler \in {"yaml", "json"}

\* The positions of the rules of the decoded rule set whose path is exactly p.
Matching(p) == {k \in 1..Len(mappers) : mappers[k].Path = p}

FirstMatching(p) == CHOOSE k \in Matching(p) : \A j \in Matching(p) : k <= j

\* A structured rule decides the request for p.
RuleMatches(p) == Structured /\ Matching(p) # {}

\* The file was read: getFileBytes returned its bytes, possibly none.
Readable(file) == file.kind \in {"empty", "scalar", "list"}

\* The file was read and holds at least one byte.
NonEmpty(file) == file.kind \in {"scalar", "list"}

\* The payload main hands to a decoder, by the files main was started with.
YAMLSelected == Readable(yamlFile)

JSONSelected == ~Readable(yamlFile) /\ Readable(jsonFile)

\* The selected payload does not decode: a scalar document in either format,
\* zero bytes as JSON.
DecodeFails ==
    \/ YAMLSelected /\ yamlFile.kind = "scalar"
    \/ JSONSelected /\ jsonFile.kind \in {"scalar", "empty"}

Selected == pc \in {"start", "serving"}

\* C1: the handler YAMLHandler/JSONHandler returns holds the payload's rules in
\* the payload's order; a request whose path equals some rule's path gets a 301
\* redirect to the url of the first such rule, written by that handler, and the
\* fallback is not called; a request whose path equals no rule's path is passed
\* unchanged to the fallback, whose response is the response.
C1_FirstMatchOrFallback ==
    /\ Selected /\ Structured =>
          LET items == IF handler = "yaml" THEN yamlFile.items ELSE jsonFile.items
          IN  /\ Len(mappers) = Len(items)
              /\ \A k \in 1..Len(items) :
                    mappers[k].Path = items[k].path /\ mappers[k].URL = items[k].url
    /\ \A i \in ReqIds :
          Done(i) /\ Structured =>
              LET r == reqs[i]
              IN  IF Matching(r.path) # {}
                  THEN /\ r.resp.status = 301
                       /\ r.resp.target = mappers[FirstMatching(r.path)].URL
                       /\ r.resp.by = handler
                       /\ r.visited = <<handler>>
                       /\ r.writes = 1
                  ELSE /\ Len(r.visited) >= 2
                       /\ r.visited[1] = handler
                       /\ r.visited[2] = "map"
                       /\ r.cur = r.path
                       /\ r.resp.by \in {"map", "mux", "helloWorldHandler"}
                       /\ r.writes = 1

\* Two rules share the request's path and differ in url, and the request is
\* answered; another request matched no rule and was answered by the fallback.
C1_Witness ==
    \E i, j \in ReqIds :
        /\ Done(i) /\ Done(j) /\ Structured
        /\ Cardinality(Matching(reqs[i].path)) = 2
        /\ mappers[1].URL # mappers[2].URL
        /\ reqs[i].resp.target = mappers[1].URL
        /\ Matching(reqs[j].path) = {}
        /\ reqs[j].resp.by \in {"map", "helloWorldHandler"}

\* C2: layering. A structured rule for the path decides the response even when
\* the path is a key of the built-in map; the built-in map decides exactly when
\* no structured rule matches and the path is one of its keys; the default mux
\* and its greeting handler are reached only when neither matches.
C2_Layering ==
    \A i \in ReqIds :
        Done(i) =>
            LET r == reqs[i]
                inMap == r.path \in DOMAIN pathsToUrls
            IN  /\ RuleMatches(r.path) =>
                      /\ r.resp.by = handler
                      /\ r.resp.target = mappers[FirstMatching(r.path)].URL
                /\ r.resp.by = "map" <=> (~RuleMatches(r.path) /\ inMap)
                /\ r.resp.by = "map" => r.resp.target = pathsToUrls[r.path]
                /\ r.resp.by \in {"mux", "helloWorldHandler"} <=>
                      (~RuleMatches(r.path) /\ ~inMap)
                /\ "mux" \in {r.visited[k] : k \in 1..Len(r.visited)} =>
                      (~RuleMatches(r.path) /\ ~inMap)

\* Scenario 1: a rule for /urlshort-godoc overrides the built-in target.
C2_Witness ==
    \E i \in ReqIds :
        /\ Done(i)
        /\ reqs[i].path = UrlshortGodocPath
        /\ reqs[i].path \in DOMAIN pathsToUrls
        /\ handler = "yaml"
        /\ reqs[i].resp.status = 301
        /\ reqs[i].resp.location = OverrideURL

\* C3 as stated: the YAML router is chosen iff the YAML payload was supplied and
\* is non-empty, else the JSON router iff the JSON payload was supplied and is
\* non-empty, else the exact-match handler; an empty payload counts as absent.
C3_AsStated ==
    Selected =>
        handler = IF NonEmpty(yamlFile) THEN "yaml"
                  ELSE IF NonEmpty(jsonFile) THEN "json"
                       ELSE "map"

\* C3 amended: the choice is by whether the file was read, not by whether it
\* holds bytes. A YAML file that was read, even one of zero bytes, selects the
\* YAML router (zero bytes decode to no rules, and the JSON payload is ignored);
\* else a JSON file that was read selects the JSON router (zero bytes fail to
\* decode and abort startup); else the exact-match handler is used directly.
C3_SelectionByReadability ==
    /\ Selected =>
          handler = IF Readable(yamlFile) THEN "yaml"
                    ELSE IF Readable(jsonFile) THEN "json"
                         ELSE "map"
    /\ Selected /\ yamlFile = EmptyPayload => handler = "yaml" /\ mappers = <<>>
    /\ ~Readable(yamlFile) /\ jsonFile = EmptyPayload => ~Selected
    /\ pc = "panicked" => DecodeFails

\* An empty YAML file next to a JSON file with rules: the YAML router is serving.
C3_Witness ==
    /\ pc = "serving"
    /\ yamlFile = EmptyPayload
    /\ jsonFile.kind = "list"
    /\ jsonFile.items # <<>>
    /\ handler = "yaml"

\* C4: a decode failure is fatal. YAMLHandler/JSONHandler return an error and no
\* handler for a payload that does not decode; main then panics, so the server is
\* never started, no request is ever accepted, and whenever the server listens
\* the selected payload, if any, decoded.
C4_DecodeFailureIsFatal ==
    /\ \A b \in {yamlFile, jsonFile} \cap {f \in {yamlFile, jsonFile} : Readable(f)} :
          /\ YAMLHandler(b).err <=> b.kind = "scalar"
          /\ JSONHandler(b).err <=> b.kind \in {"scalar", "empty"}
          /\ YAMLHandler(b).err => YAMLHandler(b).handler = "none"
          /\ JSONHandler(b).err => JSONHandler(b).handler = "none"
    /\ DecodeFails => pc \in {"main", "compose", "select", "panicked"}
    /\ DecodeFails => ~listening /\ handler \in {"none", "map"}
    /\ pc = "panicked" => ~listening /\ \A i \in ReqIds : reqs[i] = IdleReq
    /\ \A i \in ReqIds : reqs[i] # IdleReq => listening /\ ~DecodeFails

\* Scenario 4: `not valid json` as the JSON payload, no YAML: main has panicked.
C4_Witness ==
    /\ pc = "panicked"
    /\ ~Readable(yamlFile)
    /\ jsonFile = ScalarPayload
    /\ ~listening

\* No rule and no key of the built-in map equals the path.
NothingMatches(p) == ~RuleMatches(p) /\ p \notin DOMAIN pathsToUrls

\* The path is in the canonical form of a request path: it starts with a slash and
\* holds no "." or ".." element and no empty element other than a last one (a
\* trailing slash).
Canonical(p) ==
    /\ p # <<>>
    /\ p[1] = Slash
    /\ LET es == Elements(p)
       IN  \A k \in 2..Len(es) :
               /\ es[k] \notin {<<Dot>>, <<Dot, Dot>>}
               /\ es[k] = <<>> => k = Len(es)

MatchedURL(r) ==
    IF r.resp.by \in {"yaml", "json"} THEN mappers[FirstMatching(r.path)].URL
    ELSE pathsToUrls[r.path]

\* The url names a scheme (https:...) or a host (//host...).
Absolute(u) ==
    \/ Len(u) >= 1 /\ u[1] = Scheme
    \/ Len(u) >= 3 /\ SubSeq(u, 1, 2) = <<Slash, Slash>> /\ u[3] # Slash

Unread(file) == file.kind \in {"notpassed", "unreadable"}

\* C7 as stated: a YAML file that cannot be read never ends startup; with a
\* readable JSON file the JSON router is selected, with none the exact-match
\* handler, and in each case startup goes on to serving.
C7_AsStated ==
    yamlFile = Unreadable =>
        /\ pc # "panicked"
        /\ Selected => handler = IF Readable(jsonFile) THEN "json" ELSE "map"

\* C7 amended: a file that cannot be read is treated exactly like a flag that was
\* not passed (nil bytes) and is never fatal by itself. If the YAML file cannot be
\* read and the JSON file is readable, the JSON router is selected, and startup
\* goes on to serving unless the JSON payload fails to decode; if neither can be
\* read, the exact-match handler over the built-in map is the top-level handler
\* and startup always goes on to serving.
C7_UnreadableIsNotPassed ==
    /\ pc # "main" =>
          /\ Unread(yamlFile) <=> yamlBytes = Nil
          /\ Unread(jsonFile) <=> jsonBytes = Nil
    /\ Unread(yamlFile) /\ Selected =>
          handler = IF Readable(jsonFile) THEN "json" ELSE "map"
    /\ Unread(yamlFile) /\ pc = "panicked" =>
          Readable(jsonFile) /\ jsonFile.kind \in {"empty", "scalar"}
    /\ Unread(yamlFile) /\ Unread(jsonFile) /\ Selected =>
          handler = "map" /\ pathsToUrls = BuiltinMap
    /\ Selected /\ handler \in {"yaml", "json"} =>
          Readable(IF handler = "yaml" THEN yamlFile ELSE jsonFile)

\* The YAML file cannot be read, the JSON file holds rules: the JSON router serves.
C7_Witness ==
    /\ pc = "serving"
    /\ yamlFile = Unreadable
    /\ jsonFile.kind = "list"
    /\ jsonFile.items # <<>>
    /\ handler = "json"

\* C8: MapHandler's handler redirects (301) to m[p] exactly when p is a key of m,
\* by string equality, and otherwise calls the fallback with the request
\* unchanged; with the built-in map, /yaml-godoc is redirected to
\* https://godoc.org/gopkg.in/yaml.v2.
C8_MapHandlerExactMatch ==
    \A i \in ReqIds :
        Done(i) /\ handler = "map" =>
            LET r == reqs[i]
            IN  /\ r.path \in DOMAIN pathsToUrls =>
                      /\ r.resp.status = 301
                      /\ r.resp.by = "map"
                      /\ r.resp.target = pathsToUrls[r.path]
                      /\ r.visited = <<"map">>
                /\ r.path \notin DOMAIN pathsToUrls =>
                      /\ r.visited = <<"map", "mux">>
                      /\ r.cur = r.path
                      /\ r.resp.by \in {"mux", "helloWorldHandler"}
                /\ pathsToUrls = BuiltinMap /\ r.path = YamlGodocPath =>
                      /\ r.resp.status = 301
                      /\ r.resp.location = YamlGodocURL

\* Scenario 2: with the built-in map, /yaml-godoc is redirected to the yaml.v2 docs.
C8_Witness ==
    /\ Done(1)
    /\ handler = "map"
    /\ pathsToUrls = BuiltinMap
    /\ reqs[1].path = YamlGodocPath
    /\ reqs[1].resp.status = 301
    /\ reqs[1].resp.location = YamlGodocURL

\* The rules the selected payload holds, in its order.
ConfiguredRules ==
    IF handler = "yaml" THEN yamlUnmarshal(yamlFile).mappers
    ELSE IF handler = "json" THEN jsonUnmarshal(jsonFile).mappers
         ELSE <<>>

\* The response to a request for p that is handled alone, start to end, by the
\* chain main composed from the configuration read at startup.
AloneResponse(p) ==
    LET r0 == [IdleReq EXCEPT !.stage = handler, !.path = p, !.cur = p]
        r1 == IF handler = "yaml" THEN yamlServeHTTP(ConfiguredRules, r0)
              ELSE IF handler = "json" THEN jsonServeHTTP(ConfiguredRules, r0)
                   ELSE r0
        r2 == IF r1.stage = "map" THEN MapHandler(BuiltinMap, r1) ELSE r1
        r3 == IF r2.stage = "mux" THEN muxServeHTTP(r2) ELSE r2
    IN  r3.resp

ConfigUnchanged ==
    listening => /\ mappers' = mappers
                 /\ pathsToUrls' = pathsToUrls
                 /\ handler' = handler

\* C9: once the server listens, no step changes the rule set, the built-in map or
\* the handler; every answered request has the response it would get if handled
\* alone, whatever the other requests are doing, and two answered requests for
\* the same path have the same response.
C9_RequestsAreIndependent ==
    /\ [][ConfigUnchanged]_vars
    /\ [](\A i \in ReqIds : Done(i) => reqs[i].resp = AloneResponse(reqs[i].path))
    /\ [](\A i, j \in ReqIds :
             Done(i) /\ Done(j) /\ reqs[i].path = reqs[j].path =>
                 reqs[i].resp = reqs[j].resp)

\* One request is answered by a rule while another, for the same path, is still
\* inside the chain.
C9_Witness ==
    \E i, j \in ReqIds :
        /\ i # j
        /\ Done(i)
        /\ reqs[i].resp.by \in {"yaml", "json"}
        /\ reqs[j].stage \in {"yaml", "json"}
        /\ reqs[j].path = reqs[i].path

\* The handlers a request passes through, in the order main chained them.
Chains ==
    {<<handler>>, <<handler, "map">>, <<handler, "map", "mux">>, <<"map">>, <<"map", "mux">>}

InChain(i) == reqs[i].stage \in {"yaml", "json", "map", "mux"}

ExactlyOneResponse ==
    \A i \in ReqIds :
        LET r == reqs[i]
        IN  /\ InChain(i) =>
                  /\ r.writes = 0
                  /\ r.resp = NoResp
                  /\ Len(r.visited) <= 2
                  /\ r.visited = <<>> \/ Append(r.visited, r.stage) \in Chains
            /\ Done(i) =>
                  /\ r.writes = 1
                  /\ r.visited \in Chains
                  /\ Len(r.visited) <= 3
                  /\ r.visited[1] = handler
                  /\ r.resp.by = IF r.visited[Len(r.visited)] = "mux" /\ r.resp.status = 200
                                 THEN "helloWorldHandler"
                                 ELSE r.visited[Len(r.visited)]

\* C10: a request in the chain has no response yet and has passed each handler
\* at most once, in the order structured router, exact-match router, default
\* mux; an answered request has exactly one response, written by the last of at
\* most three handlers it visited; and every accepted request is answered.
C10_ExactlyOneResponse ==
    /\ []ExactlyOneResponse
    /\ \A i \in ChainReqs : InChain(i) ~> Done(i)

\* A request went through all three handlers and got the greeting.
C10_Witness ==
    \E i \in ReqIds :
        /\ Done(i)
        /\ Len(reqs[i].visited) = 3
        /\ reqs[i].writes = 1
        /\ reqs[i].resp.by = "helloWorldHandler"

====
